---- MODULE Spec2Model ----
(***************************************************************************)
(* Model of the SRE agent's anomaly detector                               *)
(* (python-backend/src/services/anomaly_detector.py) and of the background *)
(* loop that drives it (python-backend/src/main.py).                       *)
(*                                                                         *)
(* Scores and thresholds are in hundredths (0.7 is 70).  A mean is kept as *)
(* the pair (sum of the votes, number of votes) and compared by            *)
(* cross-multiplication, so comparisons with a threshold are exact.        *)
(* np.mean of an empty vote list is nan: every comparison with it is       *)
(* false.                                                                  *)
(***************************************************************************)
EXTENDS Integers, Sequences, FiniteSets, TLC

\* ------------------------------------------------------------------ bounds

\* Number of detection cycles the loop is followed for.
MaxCycles == 2

\* Longest series whose points may all score high at once; a longer series
\* scores low everywhere but at its last point.
MaxHotSeries == 100

\* ------------------------------------------------------- program constants

\* self.buffer_size
buffer_size == 1000

\* len(values) < 10: minimum number of points detect_anomalies scores
MinPoints == 10

\* A forecast needs at least 50 buffered values.
MinForecastPoints == 50

\* A forecast reads the last 100 buffered values.
RecentWindow == 100

\* The trend is taken over the last 10 of them.
TrendWindow == 10

\* .get('warning', 0.7) in detect_anomalies
DefaultWarning == 70

\* {'warning': 0.7, 'critical': 0.9} in _determine_severity
SeverityDefaultWarning == 70
SeverityDefaultCritical == 90

\* self.thresholds
thresholds ==
    [cpu           |-> [warning |-> 70, critical |-> 90],
     memory        |-> [warning |-> 75, critical |-> 90],
     disk          |-> [warning |-> 80, critical |-> 95],
     network       |-> [warning |-> 60, critical |-> 80],
     response_time |-> [warning |-> 65, critical |-> 85]]

\* metrics = ['cpu', 'memory', 'disk', 'network', 'response_time']
\* in _load_historical_data
BufferedMetrics == {"cpu", "memory", "disk", "network", "response_time"}

\* self.models as built by __init__: the transformer slot is None, the
\* classical models are constructed but not fitted.
ModelsAtConstruction ==
    [transformer      |-> "None",
     isolation_forest |-> "unfitted",
     autoencoder      |-> "unfitted",
     vae              |-> "unfitted"]

\* --------------------------------------------------------------- inputs

\* The batches collect_all_metrics may return, as the (name, number of
\* values) pairs of the mapping in its iteration order.  "latency" is a
\* metric name the detector has no threshold and no buffer for.
BatchShapes ==
    { << <<"cpu", 9>>, <<"network", 10>>, <<"memory", 5>> >>,
      << <<"latency", 10>>, <<"cpu", 11>>, <<"memory", 11>>, <<"disk", 11>>,
         <<"network", 11>>, <<"response_time", 11>> >>,
      << <<"cpu", 1000>> >>,
      << <<"memory", 50>>, <<"cpu", 1001>> >> }

\* How much the readings of a metric rise from one sample to the next.
SlopeOf(name) == IF name = "memory" THEN 2 ELSE 1

\* The largest horizon a forecast is requested for.
MaxHorizon == 2

\* The metrics forecasts are requested for.
ForecastMetrics == {"cpu", "memory", "latency"}

\* Raw scores of the four ensemble members at one point, in the order
\* isolation forest, autoencoder, VAE, statistical z-score.
LowRow == <<10, 10, 10, 10>>
VoteRows ==
    { LowRow,
      <<60, 60, 60, 60>>,
      <<70, 70, 70, 70>>,
      <<70, 75, 72, 75>>,
      <<90, 90, 90, 90>>,
      <<80, 100, 100, 100>> }
BaseRows == { LowRow, <<90, 90, 90, 90>> }

\* Number of members of the ensemble in _run_ensemble_detection.
EnsembleSize == 4

\* The 'weight' each member declares in its result, in hundredths, in the
\* order of the members.
Weights == <<30, 30, 20, 20>>

\* Scores are kept in hundredths: 1.0 is Scale.
Scale == 100

\* How many members score before one raises (all four when none does).
\* The z-score member catches its own exceptions and returns zeros, so a
\* failure leaves 0, 1 or 2 votes.
VoteCounts == {0, 1, 2, EnsembleSize}

\* What the fitted models return in one cycle: the votes at every point but
\* the last (base), the votes at the last point of each series (last), and
\* the number of members that score before one raises (scoredBy).
\* When the first member raises there are no votes, and one oracle stands
\* for all.
Oracles ==
    { orc \in [base : BaseRows, last : VoteRows, scoredBy : VoteCounts] :
        orc.scoredBy = 0 => (orc.base = LowRow /\ orc.last = LowRow) }

\* The oracle of a cycle that scores no series.
NoOracle == [base |-> LowRow, last |-> LowRow, scoredBy |-> 0]

\* ------------------------------------------------------------- variables

VARIABLES
    appState,        \* lifespan: "starting", "started", "failed"
    pc,              \* position of the run_background_tasks task
    cycles,          \* number of cycles started
    initState,       \* AnomalyDetector.initialize: "not_called", "ok", "failed"
    models,          \* self.models: which members are loaded / fitted
    data_buffer,     \* self.data_buffer: metric name -> sequence of values
    current_metrics, \* the batch of the running cycle: <<name, values>> pairs
    oracle,          \* what the models return in the running cycle
    anomalies,       \* the anomalies list of run_detection_cycle
    alerts,          \* calls of _send_alert in the running cycle
    incidents,       \* calls of _create_incident in the running cycle
    scored,          \* every point the running cycle has scored
    appended,        \* metric name -> every value ever appended to its buffer
    collectFailed,   \* collect_all_metrics raised in the running cycle
    scoringRaised,   \* an ensemble member raised in the running cycle
    cancelRequested, \* the task's cancel() has been called
    cancelledAt,     \* pc at which the CancelledError was delivered
    sampleNo,        \* number of the last sample the metrics source produced
    threshold_table, \* self.thresholds
    reply            \* what the last request returned to its caller

vars == <<appState, pc, cycles, initState, models, data_buffer,
          current_metrics, oracle, anomalies, alerts, incidents, scored,
          appended, collectFailed, scoringRaised,
          cancelRequested, cancelledAt, sampleNo, threshold_table, reply>>

\* No request has returned since the last step of the program.
NoReply == [kind |-> "none"]

\* ------------------------------------------------------- pure functions

RECURSIVE SumSeq(_)
SumSeq(s) == IF s = << >> THEN 0 ELSE Head(s) + SumSeq(Tail(s))

\* np.mean(votes) > t; nan > t is false
MeanGT(votes, t) == Len(votes) > 0 /\ SumSeq(votes) > Len(votes) * t

\* np.mean(votes) >= t; nan >= t is false
MeanGE(votes, t) == Len(votes) > 0 /\ SumSeq(votes) >= Len(votes) * t

Max(a, b) == IF a >= b THEN a ELSE b

RECURSIVE MaxLen(_)
MaxLen(shape) ==
    IF shape = << >> THEN 0 ELSE Max(Head(shape)[2], MaxLen(Tail(shape)))

\* The batch of a shape: the samples of one collection are numbered from
\* the source's running sample number, oldest first, and the reading of
\* a sample is its number times the slope of the metric.
BatchOf(shape, from) ==
    [k \in 1..Len(shape) |->
        <<shape[k][1],
          [j \in 1..shape[k][2] |-> (from + j) * SlopeOf(shape[k][1])]>>]

BatchNames(batch) == { batch[k][1] : k \in 1..Len(batch) }

ValuesOf(batch, name) ==
    LET k == CHOOSE k \in 1..Len(batch) : batch[k][1] = name IN batch[k][2]

\* self.thresholds.get(metric_name, {}).get('warning', 0.7)
WarningOf(metric_name) ==
    IF metric_name \in DOMAIN threshold_table
    THEN threshold_table[metric_name].warning
    ELSE DefaultWarning

\* Variant: the fallback of _determine_severity disagrees with the 0.7 of
\* detect_anomalies.
SeverityThresholdsOtherDefault(metric_name) ==
    IF metric_name \in DOMAIN threshold_table
    THEN threshold_table[metric_name]
    ELSE [warning |-> 75, critical |-> SeverityDefaultCritical]

\* self.thresholds.get(metric_name, {'warning': 0.7, 'critical': 0.9})
SeverityThresholds(metric_name) ==
    IF metric_name \in DOMAIN threshold_table
    THEN threshold_table[metric_name]
    ELSE [warning |-> SeverityDefaultWarning, critical |-> SeverityDefaultCritical]

\* Variant: the lookups use setdefault, which stores the fallback entry of
\* a metric the table does not know.
TableAfterDetectSetDefault(table, names) ==
    [m \in DOMAIN table \cup names |->
        IF m \in DOMAIN table THEN table[m]
        ELSE [warning |-> SeverityDefaultWarning,
              critical |-> SeverityDefaultCritical]]

\* self.thresholds after detect_anomalies has looked the names up with
\* .get(): a lookup stores nothing.
TableAfterDetect(table, names) == table

\* Variant: the members' scores are combined by their declared weights.
AnomalyScoreWeighted(votes, weights) ==
    [num |-> SumSeq([k \in 1..Len(votes) |-> weights[k] * votes[k]]),
     den |-> SumSeq(SubSeq(weights, 1, Len(votes)))]

\* anomaly_score = np.mean([result['scores'][i] for result in
\* ensemble_results]), as the fraction num/den of hundredths; den = 0 is
\* the nan of an empty list.  The 'weight' of a result is not read.
AnomalyScore(votes, weights) ==
    [num |-> SumSeq(votes), den |-> Len(votes)]

\* score > t and score >= t; a comparison with nan is false
ScoreGT(score, t) == score.den > 0 /\ score.num > score.den * t
ScoreGE(score, t) == score.den > 0 /\ score.num >= score.den * t

\* is_anomaly = anomaly_score > warning
IsAnomaly(metric_name, votes) ==
    ScoreGT(AnomalyScore(votes, Weights), WarningOf(metric_name))

\* _determine_severity(metric_name, anomaly_score)
SeverityOf(metric_name, score) ==
    LET t == SeverityThresholds(metric_name)
    IN  IF ScoreGE(score, t.critical) THEN "critical"
        ELSE IF ScoreGE(score, t.warning) THEN "warning"
        ELSE "info"

\* _determine_severity applied to the combined score of the votes
DetermineSeverity(metric_name, votes) ==
    SeverityOf(metric_name, AnomalyScore(votes, Weights))

\* _calculate_confidence: min(1 / (1 + np.var(scores)), 1.0) as the
\* fraction num/den.  With n scores v in hundredths,
\* np.var = (n * sum(v^2) - sum(v)^2) / (n^2 * Scale^2).
Confidence(votes) ==
    LET n     == Len(votes)
        sumSq == SumSeq([k \in 1..n |-> votes[k] * votes[k]])
        spread == n * sumSq - SumSeq(votes) * SumSeq(votes)
        one   == Scale * Scale * n * n
    IN  IF one + spread < one
        THEN [num |-> one, den |-> one]
        ELSE [num |-> one, den |-> one + spread]

\* The confidence of a point that is not flagged is never computed.
NoConfidence == [num |-> 0, den |-> 0]

\* Variant: a failure of one member discards the votes of the members
\* that scored before it.
RunEnsembleDetectionAllOrNothing(orc, n, i) ==
    IF orc.scoredBy < EnsembleSize
    THEN << >>
    ELSE IF i = n THEN orc.last ELSE orc.base

\* _run_ensemble_detection: the votes at index i of a series of n points.
\* The members run in order and the first that raises ends the ensemble,
\* which returns the votes gathered so far.
RunEnsembleDetection(orc, n, i) ==
    SubSeq(IF i = n THEN orc.last ELSE orc.base, 1, orc.scoredBy)

\* One iteration of the loop over zip(values, timestamps).
PointAt(metric_name, values, orc, i) ==
    LET votes == RunEnsembleDetection(orc, Len(values), i)
        flagged == IsAnomaly(metric_name, votes)
    IN  [metric_name   |-> metric_name,
         index         |-> i,
         value         |-> values[i],
         votes         |-> votes,
         anomaly_score |-> AnomalyScore(votes, Weights),
         is_anomaly    |-> flagged,
         severity      |-> IF flagged
                           THEN DetermineSeverity(metric_name, votes)
                           ELSE "none",
         confidence    |-> IF flagged THEN Confidence(votes) ELSE NoConfidence]

\* Variant: the minimum-length test is off by one (len(values) < 9).
TooShortOffByOne(values) == Len(values) < MinPoints - 1

\* len(values) < 10: return anomalies
TooShort(values) == Len(values) < MinPoints

\* detect_anomalies: the AnomalyResults of one series, in index order.
DetectAnomalies(metric_name, values, orc) ==
    IF TooShort(values) THEN << >>
    ELSE LET all == [i \in 1..Len(values) |-> PointAt(metric_name, values, orc, i)]
             Flagged(p) == p.is_anomaly
         IN  SelectSeq(all, Flagged)

\* The points detect_anomalies scores for one series.
ScoredPoints(metric_name, values, orc) ==
    IF TooShort(values) THEN {}
    ELSE { [metric_name |-> metric_name,
            votes       |-> PointAt(metric_name, values, orc, i).votes,
            anomaly_score |->
                PointAt(metric_name, values, orc, i).anomaly_score,
            is_anomaly  |-> PointAt(metric_name, values, orc, i).is_anomaly]
           : i \in {1, Len(values)} }

\* The anomalies list after the loop over the batch, in iteration order.
RECURSIVE DetectAll(_, _)
DetectAll(batch, orc) ==
    IF batch = << >> THEN << >>
    ELSE DetectAnomalies(Head(batch)[1], Head(batch)[2], orc)
            \o DetectAll(Tail(batch), orc)

\* Every point the loop over the batch scores.
ScoredAll(batch, orc) ==
    UNION { ScoredPoints(batch[k][1], batch[k][2], orc) : k \in 1..Len(batch) }

\* An ensemble member raised while a series of the batch was scored.
RaisedIn(batch, orc) ==
    /\ orc.scoredBy < EnsembleSize
    /\ \E k \in 1..Len(batch) : ~TooShort(batch[k][2])

\* Variant: the buffer is extended and never cut.
UpdateBufferNoEviction(buf, values) == buf \o values

\* Variant: the cut keeps the oldest buffer_size values ([:buffer_size]).
UpdateBufferKeepOldest(buf, values) ==
    LET ext == buf \o values IN
    IF Len(ext) > buffer_size THEN SubSeq(ext, 1, buffer_size) ELSE ext

\* extend, then keep the last buffer_size values
UpdateBuffer(buf, values) ==
    LET ext == buf \o values IN
    IF Len(ext) > buffer_size
    THEN SubSeq(ext, Len(ext) - buffer_size + 1, Len(ext))
    ELSE ext

\* Variant: only the series that were long enough to be scored are
\* appended.
UpdateModelsScoredOnly(buffers, batch) ==
    [m \in DOMAIN buffers |->
        IF m \in BatchNames(batch) /\ ~TooShort(ValuesOf(batch, m))
        THEN UpdateBuffer(buffers[m], ValuesOf(batch, m))
        ELSE buffers[m]]

\* Variant: a metric seen for the first time gets a buffer of its own
\* (self.data_buffer.setdefault(metric_name, [])).
UpdateModelsCreatingBuffers(buffers, batch) ==
    [m \in DOMAIN buffers \cup BatchNames(batch) |->
        IF m \in BatchNames(batch)
        THEN UpdateBuffer(IF m \in DOMAIN buffers THEN buffers[m] ELSE << >>,
                          ValuesOf(batch, m))
        ELSE buffers[m]]

\* _update_models: only metrics that already own a buffer are updated.
UpdateModels(buffers, batch) ==
    [m \in DOMAIN buffers |->
        IF m \in BatchNames(batch)
        THEN UpdateBuffer(buffers[m], ValuesOf(batch, m))
        ELSE buffers[m]]

\* _process_anomalies: the incident calls, in order
IncidentCalls(anoms) ==
    LET Critical(a) == a.severity = "critical" IN SelectSeq(anoms, Critical)

\* Variant: the alert is sent in an else branch, so critical anomalies
\* raise an incident and no alert.
AlertCallsElseBranch(anoms) ==
    LET NotCritical(a) == a.severity # "critical" IN SelectSeq(anoms, NotCritical)

\* _process_anomalies: the alert calls, in order
AlertCalls(anoms) == anoms

\* ------------------------------------------------- forecasts and status

\* s[-k:]
LastOf(s, k) == IF Len(s) <= k THEN s ELSE SubSeq(s, Len(s) - k + 1, Len(s))

\* np.diff(s)
Diff(s) == [i \in 1..(Len(s) - 1) |-> s[i + 1] - s[i]]

\* Variant: a buffer of exactly 50 values is not yet enough.
HasEnoughDataAboveFifty(buffers, metric_name) ==
    /\ metric_name \in DOMAIN buffers
    /\ Len(buffers[metric_name]) > MinForecastPoints

\* The negation of the guard of predict_future_anomalies:
\* metric_name not in self.data_buffer or len(...) < 50
HasEnoughData(buffers, metric_name) ==
    /\ metric_name \in DOMAIN buffers
    /\ Len(buffers[metric_name]) >= MinForecastPoints

\* Variant: the forecast works on the whole buffer.
RecentDataWholeBuffer(buf) == buf

\* recent_data = self.data_buffer[metric_name][-100:]
RecentData(buf) == LastOf(buf, RecentWindow)

\* trend = np.mean(np.diff(recent_data[-10:])), as the fraction num/den
Trend(recent_data) ==
    LET d == Diff(LastOf(recent_data, TrendWindow))
    IN  [num |-> SumSeq(d), den |-> Len(d)]

\* Variant: every step of the forecast adds the trend once.
PredictedValueNoStep(recent_data, h) ==
    LET trend == Trend(recent_data)
    IN  [num |-> recent_data[Len(recent_data)] * trend.den + trend.num,
         den |-> trend.den]

\* predicted_value = recent_data[-1] + trend * h, as the fraction num/den
PredictedValue(recent_data, h) ==
    LET trend == Trend(recent_data)
    IN  [num |-> recent_data[Len(recent_data)] * trend.den + trend.num * h,
         den |-> trend.den]

\* predict_future_anomalies: the predictions in the order they are
\* appended, and the historical_data their anomaly scores are taken
\* against (_calculate_prediction_anomaly_score uses its mean and its
\* standard deviation).
PredictFutureAnomalies(buffers, metric_name, horizon) ==
    IF ~HasEnoughData(buffers, metric_name)
    THEN [predictions |-> << >>, historical_data |-> << >>]
    ELSE LET recent_data == RecentData(buffers[metric_name])
         IN  IF Len(recent_data) >= TrendWindow
             THEN [predictions |->
                       [h \in 1..horizon |->
                           [step            |-> h,
                            predicted_value |-> PredictedValue(recent_data, h)]],
                   historical_data |-> recent_data]
             ELSE [predictions |-> << >>, historical_data |-> << >>]

\* Variant: a model counts as active only once it is fitted or loaded.
ModelStatusFittedOnly(model) ==
    IF model \in {"fitted"} THEN "active" ELSE "inactive"

\* get_model_status: 'active' if model is not None else 'inactive'
ModelStatus(model) == IF model # "None" THEN "active" ELSE "inactive"

\* get_model_status
GetModelStatus(m, buffers) ==
    [models            |-> [name \in DOMAIN m |-> ModelStatus(m[name])],
     data_buffer_sizes |-> [name \in DOMAIN buffers |-> Len(buffers[name])]]

\* --------------------------------------------------------- the program

\* Members that can score, by position: an unfitted model raises
\* NotFittedError from decision_function.
MaxVotes(m) ==
    IF m.isolation_forest = "unfitted" THEN 0
    ELSE IF m.autoencoder = "unfitted" THEN 1
    ELSE IF m.vae = "unfitted" THEN 2
    ELSE EnsembleSize

\* Positions of the run_background_tasks task, each at an await.
TaskPcs == {"scheduled", "collecting", "detecting", "dispatching",
            "updating", "incidents", "sleeping"}

\* The awaited collect_all_metrics() yields to the event loop.
CollectionSuspends == TRUE

\* Variant: _update_models awaits something that yields to the event loop.
RunsToCompletionButUpdate == {"detecting", "dispatching"}

\* Only coroutines of the detector itself are awaited after collection has
\* returned (detect_anomalies, _process_anomalies, _update_models) and none
\* reaches an await that yields to the event loop: these positions run to
\* the end of run_detection_cycle without suspension.
RunsToCompletion == {"detecting", "dispatching", "updating"}

\* Positions at which the task is suspended and other tasks run.
SuspensionPoints ==
    (TaskPcs \ RunsToCompletion)
        \ (IF CollectionSuspends THEN {} ELSE {"collecting"})

\* Positions inside run_detection_cycle.
CyclePcs == {"collecting", "detecting", "dispatching", "updating"}

Init ==
    /\ appState = "starting"
    /\ pc = "no_task"
    /\ cycles = 0
    /\ initState = "not_called"
    /\ models = ModelsAtConstruction
    /\ data_buffer = << >>
    /\ current_metrics = << >>
    /\ oracle = NoOracle
    /\ anomalies = << >>
    /\ alerts = << >>
    /\ incidents = << >>
    /\ scored = {}
    /\ appended = << >>
    /\ collectFailed = FALSE
    /\ scoringRaised = FALSE
    /\ cancelRequested = FALSE
    /\ cancelledAt = "none"
    /\ sampleNo = 0
    /\ threshold_table = thresholds
    /\ reply = NoReply

\* lifespan: the ML manager initializes, the services are constructed and
\* the background task is created.  AnomalyDetector.initialize is not
\* called here.
LifespanStartup ==
    /\ appState = "starting"
    /\ appState' = "started"
    /\ pc' = "scheduled"
    /\ reply' = NoReply
    /\ UNCHANGED <<threshold_table,
                   cycles, initState, models, data_buffer, current_metrics,
                   oracle, anomalies, alerts, incidents, scored, appended,
                   collectFailed, scoringRaised, cancelRequested, cancelledAt,
                   sampleNo>>

\* lifespan: a startup step raises; the error is logged and re-raised and
\* no background task exists.
LifespanFailure ==
    /\ appState = "starting"
    /\ appState' = "failed"
    /\ reply' = NoReply
    /\ UNCHANGED <<threshold_table,
                   pc, cycles, initState, models, data_buffer, current_metrics,
                   oracle, anomalies, alerts, incidents, scored, appended,
                   collectFailed, scoringRaised, cancelRequested, cancelledAt,
                   sampleNo>>

\* Variant: callers run in threads of their own and are served while
\* the loop is inside _update_models.
LoopSuspendedOrUpdating == pc \in SuspensionPoints \cup {"cancelled", "updating"}

\* Another task runs only while the loop task is suspended or gone.
LoopSuspended == pc \in SuspensionPoints \cup {"cancelled"}

\* initialize() called on the constructed detector and completing: the
\* transformer is loaded, the classical models are fitted and every
\* configured metric gets an empty buffer.
InitializeOk ==
    /\ appState = "started"
    /\ LoopSuspended
    /\ initState = "not_called"
    /\ initState' = "ok"
    /\ models' = [transformer      |-> "loaded",
                  isolation_forest |-> "fitted",
                  autoencoder      |-> "fitted",
                  vae              |-> "fitted"]
    /\ data_buffer' = [m \in BufferedMetrics |-> << >>]
    /\ appended' = [m \in BufferedMetrics |-> << >>]
    /\ reply' = NoReply
    /\ UNCHANGED <<threshold_table,
                   appState, pc, cycles, current_metrics, oracle,
                   anomalies, alerts, incidents, scored, collectFailed,
                   scoringRaised, cancelRequested, cancelledAt, sampleNo>>

\* The state of self.models when the named step of initialize() raises.
ModelsAfterFailedStep(step) ==
    [transformer      |-> IF step = "transformer" THEN "None" ELSE "loaded",
     isolation_forest |-> IF step \in {"autoencoder", "vae"}
                          THEN "fitted" ELSE "unfitted",
     autoencoder      |-> IF step = "vae" THEN "fitted" ELSE "unfitted",
     vae              |-> "unfitted"]

\* initialize() raising at one of its steps: the error is logged and
\* re-raised to the caller; the steps before it have taken effect and no
\* buffer is created.
InitializeFails(step) ==
    /\ appState = "started"
    /\ LoopSuspended
    /\ initState = "not_called"
    /\ initState' = "failed"
    /\ models' = ModelsAfterFailedStep(step)
    /\ reply' = NoReply
    /\ UNCHANGED <<threshold_table,
                   appState, pc, cycles, data_buffer, current_metrics, oracle,
                   anomalies, alerts, incidents, scored, appended,
                   collectFailed, scoringRaised, cancelRequested, cancelledAt,
                   sampleNo>>

\* while True: ... await run_detection_cycle(): the call reaches
\* await collect_all_metrics().
StartCycle ==
    /\ pc \in {"scheduled", "sleeping"}
    /\ ~cancelRequested
    /\ appState = "started"
    /\ cycles < MaxCycles
    /\ pc' = "collecting"
    /\ cycles' = cycles + 1
    /\ current_metrics' = << >>
    /\ anomalies' = << >>
    /\ alerts' = << >>
    /\ incidents' = << >>
    /\ scored' = {}
    /\ collectFailed' = FALSE
    /\ scoringRaised' = FALSE
    /\ reply' = NoReply
    /\ UNCHANGED <<threshold_table,
                   appState, initState, models, data_buffer, oracle, appended,
                   cancelRequested, cancelledAt, sampleNo>>

\* A series of the batch is long enough to be scored.
Scores(shape) == \E k \in 1..Len(shape) : shape[k][2] >= MinPoints

\* collect_all_metrics() returns a batch.
CollectReturn(shape, orc) ==
    /\ pc = "collecting"
    /\ ~cancelRequested
    /\ orc.scoredBy <= MaxVotes(models)
    /\ Scores(shape) \/ orc = NoOracle
    /\ MaxLen(shape) <= MaxHotSeries \/ orc.base = LowRow
    /\ current_metrics' = BatchOf(shape, sampleNo)
    /\ sampleNo' = sampleNo + MaxLen(shape)
    /\ oracle' = orc
    /\ pc' = "detecting"
    /\ reply' = NoReply
    /\ UNCHANGED <<threshold_table,
                   appState, cycles, initState, models, data_buffer,
                   anomalies, alerts, incidents, scored, appended,
                   collectFailed, scoringRaised, cancelRequested, cancelledAt>>

\* Variant: the samples gathered before the failure are pushed into the
\* buffers by the failing collection.
CollectRaiseAfterPartialAppend ==
    /\ pc = "collecting"
    /\ ~cancelRequested
    /\ collectFailed' = TRUE
    /\ pc' = "incidents"
    /\ data_buffer' = [m \in DOMAIN data_buffer |->
                          UpdateBuffer(data_buffer[m], <<sampleNo + 1>>)]
    /\ reply' = NoReply
    /\ UNCHANGED <<threshold_table,
                   appState, cycles, initState, models, current_metrics,
                   oracle, anomalies, alerts, incidents, scored, appended,
                   scoringRaised, cancelRequested, cancelledAt, sampleNo>>

\* Variant: the error of collect_all_metrics is not caught in
\* run_detection_cycle; the except clause of run_background_tasks logs it
\* and the task ends.
CollectRaisePropagates ==
    /\ pc = "collecting"
    /\ ~cancelRequested
    /\ collectFailed' = TRUE
    /\ pc' = "ended"
    /\ reply' = NoReply
    /\ UNCHANGED <<threshold_table,
                   appState, cycles, initState, models, data_buffer,
                   current_metrics, oracle, anomalies, alerts, incidents,
                   scored, appended, scoringRaised, cancelRequested,
                   cancelledAt, sampleNo>>

\* collect_all_metrics() raises: except Exception logs it and
\* run_detection_cycle returns.
CollectRaise ==
    /\ pc = "collecting"
    /\ ~cancelRequested
    /\ collectFailed' = TRUE
    /\ pc' = "incidents"
    /\ reply' = NoReply
    /\ UNCHANGED <<threshold_table,
                   appState, cycles, initState, models, data_buffer,
                   current_metrics, oracle, anomalies, alerts, incidents,
                   scored, appended, scoringRaised, cancelRequested,
                   cancelledAt, sampleNo>>

\* Variant: the anomalies of a metric are dispatched as soon as the
\* metric has been scored, inside the loop over the batch.
DetectBatchDispatching ==
    /\ pc = "detecting"
    /\ anomalies' = DetectAll(current_metrics, oracle)
    /\ scored' = ScoredAll(current_metrics, oracle)
    /\ scoringRaised' = RaisedIn(current_metrics, oracle)
    /\ alerts' = AlertCalls(DetectAll(current_metrics, oracle))
    /\ incidents' = IncidentCalls(DetectAll(current_metrics, oracle))
    /\ pc' = "dispatching"
    /\ reply' = NoReply
    /\ UNCHANGED <<threshold_table, appState, cycles, initState, models,
                   data_buffer, current_metrics, oracle, appended,
                   collectFailed, cancelRequested, cancelledAt, sampleNo>>

\* for metric_name, metric_data in current_metrics.items():
\*     anomalies.extend(await self.detect_anomalies(metric_name, metric_data))
DetectBatch ==
    /\ pc = "detecting"
    /\ anomalies' = DetectAll(current_metrics, oracle)
    /\ scored' = ScoredAll(current_metrics, oracle)
    /\ scoringRaised' = RaisedIn(current_metrics, oracle)
    /\ pc' = "dispatching"
    /\ threshold_table' =
          TableAfterDetect(threshold_table, BatchNames(current_metrics))
    /\ reply' = NoReply
    /\ UNCHANGED <<appState, cycles, initState, models, data_buffer,
                   current_metrics, oracle, alerts, incidents, appended,
                   collectFailed, cancelRequested, cancelledAt, sampleNo>>

\* if anomalies: await self._process_anomalies(anomalies)
ProcessAnomalies ==
    /\ pc = "dispatching"
    /\ anomalies # << >>
    /\ alerts' = AlertCalls(anomalies)
    /\ incidents' = IncidentCalls(anomalies)
    /\ pc' = "updating"
    /\ reply' = NoReply
    /\ UNCHANGED <<threshold_table,
                   appState, cycles, initState, models, data_buffer,
                   current_metrics, oracle, anomalies, scored, appended,
                   collectFailed, scoringRaised, cancelRequested, cancelledAt,
                   sampleNo>>

\* if anomalies: is false, nothing is dispatched
NoAnomalies ==
    /\ pc = "dispatching"
    /\ anomalies = << >>
    /\ pc' = "updating"
    /\ reply' = NoReply
    /\ UNCHANGED <<threshold_table,
                   appState, cycles, initState, models, data_buffer,
                   current_metrics, oracle, anomalies, alerts, incidents,
                   scored, appended, collectFailed, scoringRaised,
                   cancelRequested, cancelledAt, sampleNo>>

\* await self._update_models(current_metrics), then run_detection_cycle
\* returns (its locals are gone) and the loop awaits
\* process_pending_incidents().
UpdateModelsStep ==
    /\ pc = "updating"
    /\ data_buffer' = UpdateModels(data_buffer, current_metrics)
    /\ appended' =
          [m \in DOMAIN data_buffer |->
              IF m \in BatchNames(current_metrics)
              THEN appended[m] \o ValuesOf(current_metrics, m)
              ELSE appended[m]]
    /\ pc' = "incidents"
    /\ current_metrics' = << >>
    /\ oracle' = NoOracle
    /\ anomalies' = << >>
    /\ alerts' = << >>
    /\ incidents' = << >>
    /\ scored' = {}
    /\ reply' = NoReply
    /\ UNCHANGED <<threshold_table,
                   appState, cycles, initState, models, collectFailed,
                   scoringRaised, cancelRequested, cancelledAt, sampleNo>>

\* process_pending_incidents() returns and the loop awaits asyncio.sleep(30).
ProcessPendingIncidents ==
    /\ pc = "incidents"
    /\ ~cancelRequested
    /\ pc' = "sleeping"
    /\ reply' = NoReply
    /\ UNCHANGED <<threshold_table,
                   appState, cycles, initState, models, data_buffer,
                   current_metrics, oracle, anomalies, alerts, incidents,
                   scored, appended, collectFailed, scoringRaised,
                   cancelRequested, cancelledAt, sampleNo>>

\* Another task calls cancel() on the loop task while it is suspended.
Cancel ==
    /\ pc \in SuspensionPoints
    /\ ~cancelRequested
    /\ cancelRequested' = TRUE
    /\ reply' = NoReply
    /\ UNCHANGED <<threshold_table,
                   appState, pc, cycles, initState, models, data_buffer,
                   current_metrics, oracle, anomalies, alerts, incidents,
                   scored, appended, collectFailed, scoringRaised, cancelledAt,
                   sampleNo>>

\* The position at which a requested cancellation reaches the task.
CancelDeliverable == pc \in SuspensionPoints

\* CancelledError is thrown into the task at the await it is suspended on.
\* It is not an Exception, so neither except clause catches it and the
\* task ends.
DeliverCancel ==
    /\ cancelRequested
    /\ CancelDeliverable
    /\ cancelledAt' = pc
    /\ pc' = "cancelled"
    /\ reply' = NoReply
    /\ UNCHANGED <<threshold_table,
                   appState, cycles, initState, models, data_buffer,
                   current_metrics, oracle, anomalies, alerts, incidents,
                   scored, appended, collectFailed, scoringRaised,
                   cancelRequested, sampleNo>>

\* ------------------------------------------------------------ requests

\* The series and the model outputs of a detect_anomalies call made from
\* outside the loop.
RequestLengths == {MinPoints - 1, MinPoints}
RequestOracles ==
    { NoOracle,
      [base |-> LowRow, last |-> <<90, 90, 90, 90>>, scoredBy |-> EnsembleSize] }

\* Everything of the program but the reply to the caller and the fields
\* of the detector.
RestOfProgram ==
    <<appState, pc, cycles, initState, current_metrics, oracle, anomalies,
      alerts, incidents, scored, appended, collectFailed, scoringRaised,
      cancelRequested, cancelledAt, sampleNo>>

\* A caller awaits detect_anomalies("latency", data, timestamps) while the
\* loop is suspended; the coroutine has no await that yields.
DetectRequest(n, orc) ==
    /\ appState = "started"
    /\ LoopSuspended
    /\ orc.scoredBy <= MaxVotes(models)
    /\ n >= MinPoints \/ orc = NoOracle
    /\ reply' = [kind   |-> "detect",
                 result |-> DetectAnomalies("latency", [j \in 1..n |-> j], orc)]
    /\ threshold_table' = TableAfterDetect(threshold_table, {"latency"})
    /\ UNCHANGED <<models, data_buffer, RestOfProgram>>

\* A caller awaits predict_future_anomalies(metric_name, horizon).
PredictRequest(metric_name, horizon) ==
    /\ appState = "started"
    /\ LoopSuspended
    /\ reply' = [kind        |-> "forecast",
                 metric_name |-> metric_name,
                 horizon     |-> horizon,
                 result      |->
                     PredictFutureAnomalies(data_buffer, metric_name, horizon)]
    /\ UNCHANGED <<models, data_buffer, threshold_table, RestOfProgram>>

\* A caller awaits get_model_status().
StatusRequest ==
    /\ appState = "started"
    /\ LoopSuspended
    /\ reply' = [kind |-> "status", result |-> GetModelStatus(models, data_buffer)]
    /\ UNCHANGED <<models, data_buffer, threshold_table, RestOfProgram>>

\* The requests served by the detector.
RequestStep ==
    \/ \E n \in RequestLengths, orc \in RequestOracles : DetectRequest(n, orc)
    \/ \E metric_name \in ForecastMetrics, horizon \in 1..MaxHorizon :
          PredictRequest(metric_name, horizon)
    \/ StatusRequest

\* ------------------------------------------------------- specifications

InitSteps == {"transformer", "isolation_forest", "autoencoder", "vae"}

\* The steps of one cycle after another, with the batches of the metrics
\* source drawn from shapes and the outputs of the models from oracles.
CycleStep(shapes, oracles) ==
    \/ StartCycle
    \/ \E shape \in shapes, orc \in oracles : CollectReturn(shape, orc)
    \/ CollectRaise
    \/ DetectBatch
    \/ ProcessAnomalies
    \/ NoAnomalies
    \/ UpdateModelsStep
    \/ ProcessPendingIncidents

\* The steps of the run_background_tasks task.
LoopStep(shapes) == CycleStep(shapes, Oracles) \/ DeliverCancel

\* The steps of the application around the detector.
StartupStep ==
    \/ LifespanStartup
    \/ LifespanFailure
    \/ InitializeOk
    \/ \E step \in InitSteps : InitializeFails(step)

\* The steps of the application and of the callers of the detector.
EnvStep == StartupStep \/ Cancel

Next == EnvStep \/ LoopStep(BatchShapes)

Spec == Init /\ [][Next]_vars

\* The batches that hold no series longer than MaxHotSeries.
ShortBatchShapes == { shape \in BatchShapes : MaxLen(shape) <= MaxHotSeries }

FairNext == EnvStep \/ LoopStep(ShortBatchShapes)

\* The event loop resumes the task whenever the call it awaits has finished
\* (returned, raised or been cancelled) or the sleep has elapsed.
\* The detector serving requests between the steps of the loop.  What a
\* request returns depends on the buffers and not on what the cycles
\* scored, so the models of the cycles return one of RequestOracles.
ApiNext == StartupStep \/ CycleStep(BatchShapes, RequestOracles) \/ RequestStep

ApiSpec == Init /\ [][ApiNext]_vars

FairSpec ==
    Init /\ [][FairNext]_vars /\ WF_vars(LoopStep(ShortBatchShapes))

\* ------------------------------------------------------------ properties

\* Number of positions of sequence s that hold x.
Count(s, x) == Cardinality({ i \in 1..Len(s) : s[i] = x })

\* Elements of a sequence.
Range(s) == { s[i] : i \in 1..Len(s) }

\* C1: after any sequence of cycles and any batch sizes, the rolling buffer
\* of every metric holds at most buffer_size (1000) values.
C1_BufferNeverExceedsCapacity ==
    \A m \in DOMAIN data_buffer : Len(data_buffer[m]) <= buffer_size

\* A buffer is full after more than buffer_size values were appended to it.
C1_Witness ==
    \E m \in DOMAIN data_buffer :
        /\ Len(data_buffer[m]) = buffer_size
        /\ Len(appended[m]) > buffer_size

\* C2: once buffer_size + k values (k >= 0) have been appended to a buffer,
\* in whatever batches, the buffer is exactly the last buffer_size appended
\* values in their original order.
C2_FifoEviction ==
    \A m \in DOMAIN data_buffer :
        LET n == Len(appended[m]) IN
        n >= buffer_size =>
            data_buffer[m] = SubSeq(appended[m], n - buffer_size + 1, n)

\* More than buffer_size values reached a buffer in two batches.
C2_Witness ==
    \E m \in DOMAIN data_buffer :
        /\ Len(appended[m]) > buffer_size
        /\ cycles = 2
        /\ data_buffer[m][1] > sampleNo - buffer_size

\* C3 as stated: a step of a cycle in which collection raised or scoring
\* raised leaves every buffer as it was.
C3_FailedCycleAppendsNothing ==
    [][(pc \in CyclePcs /\ (collectFailed' \/ scoringRaised'))
          => data_buffer' = data_buffer]_vars

\* C3 amended: a cycle whose collection raises ends there and leaves every
\* buffer as it was; a cycle in which scoring raised is not abandoned, its
\* BufferUpdating step appends the collected values.
C3_OnlyCollectionFailureAbandons ==
    [][/\ (pc \in CyclePcs /\ collectFailed')
            => (data_buffer' = data_buffer /\ pc' = "incidents")
       /\ (pc = "updating" /\ scoringRaised)
            => (\A m \in DOMAIN data_buffer \cap BatchNames(current_metrics) :
                    data_buffer'[m] =
                        UpdateBuffer(data_buffer[m],
                                     ValuesOf(current_metrics, m)))]_vars

\* A cycle has failed in collection while a buffer already held values.
C3_Witness ==
    /\ collectFailed
    /\ pc = "incidents"
    /\ \E m \in DOMAIN data_buffer : Len(data_buffer[m]) > 0

\* A step taken inside run_detection_cycle stays in it, returns to the loop
\* or is the delivery of a cancellation.
StaysInLoop ==
    pc \in CyclePcs => pc' \in (CyclePcs \cup {"incidents", "cancelled"})

C5_DispatchExactlyOnce ==
    pc = "updating" =>
        /\ \A a \in Range(anomalies) :
              /\ Count(alerts, a) = 1
              /\ Count(incidents, a) = IF a.severity = "critical" THEN 1 ELSE 0
        /\ Range(alerts) \subseteq Range(anomalies)
        /\ Range(incidents) \subseteq Range(anomalies)

\* A cycle has dispatched both a critical and a warning anomaly.
C5_Witness ==
    /\ pc = "updating"
    /\ \E a \in Range(anomalies) : a.severity = "critical"
    /\ \E a \in Range(anomalies) : a.severity = "warning"

\* C6 as stated: cancellation never stops a cycle between the start of
\* Collecting and the end of its Dispatching step.
C6_CancelledOnlyBetweenCycles ==
    pc = "cancelled" => cancelledAt \notin {"collecting", "detecting", "dispatching"}

\* C6 amended: cancellation reaches the task only where it is suspended:
\* awaiting the collection, awaiting the pending-incident processing or
\* sleeping; once collection has returned it never stops the cycle before
\* BufferUpdating has completed.
C6_CancelledOnlyWhereSuspended ==
    pc = "cancelled" =>
        cancelledAt \in {"scheduled", "collecting", "incidents", "sleeping"}

\* The task was cancelled during the sleep that follows a cycle.
C6_Witness == pc = "cancelled" /\ cancelledAt = "sleeping" /\ cycles > 0

\* C7 as stated: a detection cycle runs only after initialize() has
\* completed successfully.
C7_CycleOnlyAfterInitialize == pc \in CyclePcs => initState = "ok"

\* C8 as stated: a scored point is flagged exactly when its combined score
\* is at least the warning threshold of its metric (0.7 when unknown).
C8_FlaggedIffAtLeastWarning ==
    \A p \in scored :
        p.is_anomaly <=> MeanGE(p.votes, WarningOf(p.metric_name))

\* C9: every AnomalyResult, for configured and unknown metrics alike, has
\* is_anomaly true and severity warning or critical, and so has everything
\* sent to the alert and incident collaborators.
C9_InfoNeverEmitted ==
    \A a \in Range(anomalies) \cup Range(alerts) \cup Range(incidents) :
        a.is_anomaly /\ a.severity \in {"warning", "critical"}

\* Anomalies of an unknown and of a configured metric have been alerted.
C9_Witness ==
    /\ pc = "updating"
    /\ \E a \in Range(alerts) : a.metric_name \notin DOMAIN thresholds
    /\ \E a \in Range(alerts) : a.metric_name \in DOMAIN thresholds

\* C10: a series of fewer than 10 points yields no AnomalyResult, the cycle
\* goes on, and no collaborator is notified for that metric.
C10_ShortSeriesYieldNothing ==
    pc \in {"dispatching", "updating"} =>
        \A k \in 1..Len(current_metrics) :
            Len(current_metrics[k][2]) < MinPoints =>
                \A a \in Range(anomalies) \cup Range(alerts) \cup Range(incidents) :
                    a.metric_name # current_metrics[k][1]

\* A cycle with a 9-point series whose points would all score high has
\* dispatched the anomalies of another metric.
C10_Witness ==
    /\ pc = "updating"
    /\ \E k \in 1..Len(current_metrics) :
          /\ Len(current_metrics[k][2]) = MinPoints - 1
          /\ IsAnomaly(current_metrics[k][1], oracle.base)
    /\ alerts # << >>


\* A step that returns from a request: every other step clears the reply.
IsRequest == reply' # NoReply

\* What a step may do to the fields of the detector.
C11_Frame ==
    /\ (IsRequest \/ pc = "detecting") =>
          UNCHANGED <<data_buffer, threshold_table, models>>
    /\ data_buffer' # data_buffer =>
          \/ pc = "updating" /\ pc' = "incidents"
          \/ initState = "not_called" /\ initState' = "ok"
    /\ threshold_table' = threshold_table

\* C11: detect_anomalies, predict_future_anomalies and get_model_status
\* leave the buffers, the threshold table and the model set as they were;
\* once initialize() has created the buffers they change only in the
\* buffer-updating step of a cycle, and the threshold table never changes.
C11_RequestsChangeNoDetectorState == [][C11_Frame]_vars

\* A detect_anomalies call from outside the loop has returned anomalies
\* for a metric the threshold table does not know, with values buffered.
C11_Witness ==
    /\ reply.kind = "detect"
    /\ reply.result # << >>
    /\ \E m \in DOMAIN data_buffer : Len(data_buffer[m]) > 0
    /\ threshold_table = thresholds

\* C12: for a horizon of at least 1, predict_future_anomalies returns the
\* empty sequence exactly when the metric has no buffer or fewer than 50
\* buffered values; otherwise it returns one prediction for each step
\* 1..horizon, in increasing order of the step.
C12_EmptyExactlyBelowFifty ==
    reply.kind = "forecast" =>
        LET predictions == reply.result.predictions
            m == reply.metric_name
        IN  /\ reply.horizon >= 1
            /\ predictions = << >> <=>
                  \/ m \notin DOMAIN data_buffer
                  \/ Len(data_buffer[m]) < MinForecastPoints
            /\ predictions # << >> =>
                  /\ Len(predictions) = reply.horizon
                  /\ \A k \in 1..Len(predictions) : predictions[k].step = k

\* A forecast over MaxHorizon steps has been returned for a metric with
\* exactly 50 buffered values.
C12_Witness ==
    /\ reply.kind = "forecast"
    /\ reply.horizon = MaxHorizon
    /\ reply.metric_name \in DOMAIN data_buffer
    /\ Len(data_buffer[reply.metric_name]) = MinForecastPoints
    /\ Len(reply.result.predictions) = MaxHorizon

\* The buffer rises by the same amount c from every value to the next.
IsLinear(buf, c) == \A i \in 1..(Len(buf) - 1) : buf[i + 1] - buf[i] = c

\* The slopes the readings of the metrics source can have.
Slopes == { SlopeOf(m) : m \in ForecastMetrics }

\* C13: the predicted value of step h is the last buffered value plus h
\* times the mean of the nine first differences of the last ten buffered
\* values, whatever the other steps are; when the buffer rises linearly
\* by c it is the last buffered value plus c * h.
C13_LinearExtrapolation ==
    (reply.kind = "forecast" /\ reply.result.predictions # << >>) =>
        LET buf  == data_buffer[reply.metric_name]
            n    == Len(buf)
            rise == buf[n] - buf[n - (TrendWindow - 1)]
        IN  \A h \in 1..Len(reply.result.predictions) :
               LET p == reply.result.predictions[h].predicted_value
               IN  /\ p.den > 0
                   /\ p.num * (TrendWindow - 1)
                         = (buf[n] * (TrendWindow - 1) + h * rise) * p.den
                   /\ \A c \in Slopes :
                         IsLinear(buf, c) => p.num = (buf[n] + c * h) * p.den

\* A forecast of MaxHorizon steps has been returned for a buffer that
\* rises linearly by 2.
C13_Witness ==
    /\ reply.kind = "forecast"
    /\ Len(reply.result.predictions) = MaxHorizon
    /\ IsLinear(data_buffer[reply.metric_name], 2)

\* A forecast has been returned for a buffer whose last ten values do not
\* rise linearly: the trend is not a whole number.
C13_GeneralCaseReached ==
    /\ reply.kind = "forecast"
    /\ Len(reply.result.predictions) = MaxHorizon
    /\ LET buf == data_buffer[reply.metric_name]
       IN  (buf[Len(buf)] - buf[Len(buf) - (TrendWindow - 1)])
               % (TrendWindow - 1) # 0

\* C14 as stated: the anomaly score of a forecast step is taken against
\* the mean and the standard deviation of every value in the buffer.
C14_BaselineIsFullBuffer ==
    (reply.kind = "forecast" /\ reply.result.predictions # << >>) =>
        reply.result.historical_data = data_buffer[reply.metric_name]

\* C14 amended: the anomaly score of a forecast step is taken against the
\* mean and the standard deviation of the last 100 buffered values, which
\* are the whole buffer only while it holds at most 100 values.
C14_BaselineIsLastHundred ==
    (reply.kind = "forecast" /\ reply.result.predictions # << >>) =>
        LET buf == data_buffer[reply.metric_name]
            historical_data == reply.result.historical_data
            k == Len(historical_data)
        IN  /\ k = IF Len(buf) < RecentWindow THEN Len(buf) ELSE RecentWindow
            /\ \A i \in 1..k : historical_data[i] = buf[Len(buf) - k + i]

\* A forecast has been returned for a full buffer of 1000 values.
C14_Witness ==
    /\ reply.kind = "forecast"
    /\ reply.result.predictions # << >>
    /\ Len(data_buffer[reply.metric_name]) = buffer_size

\* The models of the ensemble as configured by __init__.
ConfiguredModels == DOMAIN ModelsAtConstruction

\* C15: once initialize() has completed, get_model_status reports every
\* configured model as active and, for each of the five configured
\* metrics, the current length of its buffer, which is 0 until a cycle
\* has appended to it.
C15_StatusReportsModelsAndLengths ==
    (reply.kind = "status" /\ initState = "ok") =>
        /\ DOMAIN reply.result.models = ConfiguredModels
        /\ \A name \in ConfiguredModels : reply.result.models[name] = "active"
        /\ DOMAIN reply.result.data_buffer_sizes = BufferedMetrics
        /\ \A m \in BufferedMetrics :
              /\ reply.result.data_buffer_sizes[m] = Len(data_buffer[m])
              /\ appended[m] = << >> => reply.result.data_buffer_sizes[m] = 0

\* get_model_status has returned after initialization and after cycles
\* that filled one buffer to its capacity and left another one empty.
C15_Witness ==
    /\ reply.kind = "status"
    /\ initState = "ok"
    /\ \E m \in BufferedMetrics : reply.result.data_buffer_sizes[m] = buffer_size
    /\ \E m \in BufferedMetrics : reply.result.data_buffer_sizes[m] = 0

\* The order of the steps of the loop, stated on one step of the program.
C16_Order ==
    /\ pc = "collecting" =>
          pc' \in {"collecting", "detecting", "incidents", "cancelled"}
    /\ pc = "detecting" => pc' \in {"detecting", "dispatching"}
    /\ pc = "dispatching" => pc' \in {"dispatching", "updating"}
    /\ pc = "updating" => pc' \in {"updating", "incidents"}
    /\ pc = "incidents" => pc' \in {"incidents", "sleeping", "cancelled"}
    /\ (alerts' # alerts \/ incidents' # incidents) =>
          \/ alerts' = << >> /\ incidents' = << >>
          \/ /\ pc = "dispatching"
             /\ anomalies = DetectAll(current_metrics, oracle)
             /\ scored = ScoredAll(current_metrics, oracle)
    /\ (data_buffer' # data_buffer /\ initState' = initState) =>
          pc = "updating"
    /\ (pc' = "collecting" /\ pc # "collecting") =>
          pc \in {"scheduled", "sleeping"}

\* C16: a cycle goes through collecting, detecting, dispatching and
\* buffer updating in that order: alerts and incidents are sent only once
\* the whole batch has been scored, buffers are modified only after
\* dispatching has finished, and a further cycle starts only from the
\* delay that follows the previous one.
C16_StepsInOrder == [][C16_Order]_vars

\* A second cycle has dispatched alerts for a batch of several metrics
\* and stands before its buffer update.
C16_Witness ==
    /\ cycles = 2
    /\ pc = "updating"
    /\ alerts # << >>
    /\ Len(current_metrics) > 1

\* What the steps of a cycle that follow a successful collection do to the
\* batch and to the buffers.
C17_AfterCollection ==
    /\ pc \in {"detecting", "dispatching"} =>
          /\ pc' \in {pc, "dispatching", "updating"}
          /\ current_metrics' = current_metrics
    /\ (pc = "updating" /\ pc' # "updating") =>
          \A m \in DOMAIN data_buffer :
              data_buffer'[m] =
                  IF m \in BatchNames(current_metrics)
                  THEN LastOf(data_buffer[m] \o ValuesOf(current_metrics, m),
                              buffer_size)
                  ELSE data_buffer[m]

\* C17: a cycle whose collection succeeded always goes on to the buffer
\* update, and the update appends the collected values of every metric
\* that owns a buffer, whatever detection returned for it and whether or
\* not anything was dispatched.
C17_UpdateIndependentOfScoring == [][C17_AfterCollection]_vars

\* A cycle in which a model raised has appended the nine values of a
\* series too short to be scored.
C17_Witness ==
    /\ pc = "incidents"
    /\ ~collectFailed
    /\ scoringRaised
    /\ "cpu" \in DOMAIN appended
    /\ Len(appended["cpu"]) = MinPoints - 1

\* C18: the combined anomaly_score of a scored point is the unweighted
\* arithmetic mean of the raw scores the members of the ensemble gave it
\* (all four when none raised), the point is flagged exactly when that
\* mean exceeds the warning threshold, and the declared weights play no
\* part.
C18_ScoreIsUnweightedMean ==
    /\ \A p \in scored :
          Len(p.votes) > 0 =>
             /\ p.anomaly_score.den > 0
             /\ p.anomaly_score.num * Len(p.votes)
                   = SumSeq(p.votes) * p.anomaly_score.den
             /\ p.is_anomaly <=> MeanGT(p.votes, WarningOf(p.metric_name))
    /\ \A a \in Range(anomalies) :
          a.anomaly_score.num * Len(a.votes)
              = SumSeq(a.votes) * a.anomaly_score.den

\* A point on which the four members disagree has been scored and flagged.
C18_Witness ==
    \E p \in scored :
        /\ p.votes = <<80, 100, 100, 100>>
        /\ p.is_anomaly
        /\ \E a \in Range(anomalies) : a.votes = p.votes

\* C19: a forecast or a status request is served only while the loop is
\* at a suspension point, never inside the buffer update, and what it
\* observes of a metric is the outcome of whole updates: at most 1000
\* values, namely the most recent of everything appended so far.
C19_RequestsSeeWholeUpdates ==
    (reply.kind \in {"forecast", "status"}) =>
        /\ pc \notin {"detecting", "dispatching", "updating"}
        /\ reply.kind = "status" =>
              \A m \in DOMAIN reply.result.data_buffer_sizes :
                 /\ reply.result.data_buffer_sizes[m] <= buffer_size
                 /\ reply.result.data_buffer_sizes[m]
                       = Len(LastOf(appended[m], buffer_size))
        /\ (reply.kind = "forecast" /\ reply.result.predictions # << >>) =>
              /\ Len(reply.result.historical_data) <= buffer_size
              /\ reply.result.historical_data
                    = LastOf(appended[reply.metric_name], RecentWindow)

\* A status request has been served between two cycles, after an update
\* that evicted values from a full buffer.
C19_Witness ==
    /\ reply.kind = "status"
    /\ pc \in {"incidents", "sleeping"}
    /\ \E m \in DOMAIN appended :
          /\ Len(appended[m]) > buffer_size
          /\ reply.result.data_buffer_sizes[m] = buffer_size

\* C20: when a member of the ensemble raises, detection goes on with the
\* votes of the members that scored before it: every point carries
\* exactly those votes, it is flagged according to their mean, the
\* confidence of a flagged point is 1 / (1 + variance of those votes),
\* and with no vote at all nothing is flagged and the result is empty.
C20_PartialVotesAfterFailure ==
    (scoringRaised /\ pc \in {"dispatching", "updating"}) =>
        LET k == oracle.scoredBy IN
        /\ k < EnsembleSize
        /\ ~collectFailed
        /\ \A p \in scored :
              /\ p.votes \in {SubSeq(oracle.base, 1, k), SubSeq(oracle.last, 1, k)}
              /\ p.is_anomaly <=> MeanGT(p.votes, WarningOf(p.metric_name))
        /\ \A a \in Range(anomalies) :
              /\ Len(a.votes) = k
              /\ a.anomaly_score.num * k = SumSeq(a.votes) * a.anomaly_score.den
              /\ a.confidence.num = Scale * Scale * k * k
              /\ k = 1 => a.confidence.den = a.confidence.num
              /\ k = 2 => a.confidence.den - a.confidence.num
                             = (a.votes[1] - a.votes[2]) * (a.votes[1] - a.votes[2])
        /\ k = 0 => (anomalies = << >> /\ \A p \in scored : ~p.is_anomaly)

\* The third member raised, and a point has been flagged on the two
\* differing votes of the first and the second.
C20_Witness ==
    /\ scoringRaised
    /\ pc = "updating"
    /\ oracle.scoredBy = 2
    /\ \E a \in Range(anomalies) :
          /\ a.votes = <<80, 100>>
          /\ a.confidence.den > a.confidence.num

\* The first member raised: every series of the batch was gone through
\* and nothing was flagged.
C20_FirstMemberFailureReached ==
    /\ scoringRaised
    /\ pc = "updating"
    /\ oracle.scoredBy = 0
    /\ scored # {}
    /\ anomalies = << >>

\* The series of the running batch that belong to no configured metric
\* and are long enough to be scored.
UnknownScoredSeries ==
    { k \in 1..Len(current_metrics) :
        /\ current_metrics[k][1] \notin BufferedMetrics
        /\ ~TooShort(current_metrics[k][2]) }

\* C21: only the five configured metrics ever own a buffer, and they own
\* one from the completion of initialize() on; a cycle creates no buffer
\* for another metric of its batch, although it scores that metric and
\* dispatches its anomalies, and a forecast for such a metric is empty
\* after any number of cycles.
C21_BufferOwnersFixedByInitialization ==
    /\ DOMAIN data_buffer \subseteq BufferedMetrics
    /\ initState = "ok" => DOMAIN data_buffer = BufferedMetrics
    /\ pc = "updating" =>
          /\ \A k \in UnknownScoredSeries :
                \E p \in scored : p.metric_name = current_metrics[k][1]
          /\ \A a \in Range(anomalies) :
                a.metric_name \notin BufferedMetrics =>
                    a \in Range(alerts) \cup Range(incidents)
    /\ (reply.kind = "forecast" /\ reply.metric_name \notin BufferedMetrics) =>
          reply.result.predictions = << >>

\* After two cycles whose batches held the unconfigured metric "latency"
\* next to the configured ones, a forecast for "latency" has come back
\* empty and "latency" owns no buffer.
C21_Witness ==
    /\ initState = "ok"
    /\ cycles >= 2
    /\ Len(data_buffer["disk"]) > MinPoints + 1
    /\ "latency" \notin DOMAIN data_buffer
    /\ reply.kind = "forecast"
    /\ reply.metric_name = "latency"
    /\ reply.result.predictions = << >>

\* An anomaly of the unconfigured metric "latency" has been dispatched by
\* an initialized detector.
C21_UnknownMetricDispatchedReached ==
    /\ initState = "ok"
    /\ pc = "updating"
    /\ \E a \in Range(alerts) : a.metric_name = "latency"

====
